---- MODULE Spec2Model ----
(***************************************************************************)
(* dmut: a data-owning reader/writer mutex (src/src/dmut.h).               *)
(*                                                                         *)
(* One dmut<T> is shared by NThreads threads.  Every thread is a client    *)
(* that calls lock(), try_lock(), peek() or try_peek(), keeps the dlock    *)
(* it gets in a local variable, and releases it with unlock() or by        *)
(* leaving the scope.  Each access to a std::mutex or to the atomic        *)
(* reader_count is one step; statements that touch only a thread's own     *)
(* objects are folded into the step that precedes them.                    *)
(*                                                                         *)
(* std::mutex is modelled as the plain, non-recursive, non-checking mutex  *)
(* that libstdc++ and libc++ build on (a default pthread mutex): lock()    *)
(* blocks while the mutex is locked, whoever locked it, the calling        *)
(* thread included; unlock() leaves the mutex unlocked, whoever locked it  *)
(* and also when it was not locked.  The variables mut_w and mut_r hold    *)
(* the thread whose call locked the mutex, or NoThread.                    *)
(*                                                                         *)
(* dlock::unlock() on a guard whose owner is nullptr calls                 *)
(* owner->on_release(NO_LOCK): on_release is a non-virtual inline member   *)
(* that reads no member of the dmut for NO_LOCK, and the call does nothing *)
(* in every build.                                                         *)
(*                                                                         *)
(* The thread Main owns the dmut object: it may move it into another dmut  *)
(* or destroy it.  The client threads are followed while the dmut has its  *)
(* data.                                                                   *)
(***************************************************************************)
EXTENDS Integers, FiniteSets, TLC

\* Number of client threads sharing the dmut.
NThreads == 3
\* Number of distinct values a writer may store in the protected object.
NumValues == 2
\* The value the dmut is constructed with: new_dmut<iwrap>(5).
InitVal == 5

Threads == 1..NThreads
NoThread == 0
\* The thread that owns the dmut object: it moves it or destroys it.
Main == NThreads + 1
Values == InitVal..(InitVal + NumValues - 1)

\* enum LOCK_TYPE
LOCK_TYPE == {"WRITER_LOCK", "READER_LOCK", "NO_LOCK"}

VARIABLES
    mut_w,          \* dmut::mut_w: the thread that locked it, or NoThread
    mut_r,          \* dmut::mut_r: the thread that locked it, or NoThread
    reader_count,   \* dmut::data->reader_count
    value,          \* *dmut::data->ptr_data
    pc,             \* each thread's position
    held,           \* each thread's dlock variable (the caller's guard)
    tmp,            \* each thread's dlock temporary inside try_lock/try_peek
    call,           \* the acquisition function a thread called last
    ret,            \* the bool of the pair a try_ call returned
    rel,            \* which dlock::unlock() a thread is executing
    notified,       \* history: on_release calls with a lock kind made for
                    \* the guard issued by the thread's current call
    committed,      \* history: value when a writer guard was last released
    wrote,          \* history: the thread wrote through its current guard
    last_read,      \* history: the latest read through a guard: the value
                    \* it returned and the value in `committed` then
    dest,           \* each thread's second dlock variable, the left-hand
                    \* side of a move assignment
    dmut_data,      \* dmut::data: "live", "null" (moved away) or "freed"
    life_pc,        \* the owning thread's position in a move or in ~dmut()
    this_mut_w,     \* mut_w of the dmut a move constructs or assigns to
    this_data,      \* whether that dmut's data points to the data block
    found           \* history: reader_count as a thread's try_peek() found
                    \* it when it took mut_r; empty outside try_peek()

vars == <<mut_w, mut_r, reader_count, value, pc, held, tmp, call, ret, rel,
          notified, committed, wrote, last_read,
          dest, dmut_data, life_pc, this_mut_w, this_data, found>>

sync == <<mut_w, mut_r, reader_count>>
data == <<value, committed, wrote, last_read>>
life == <<dmut_data, life_pc, this_mut_w, this_data>>

(***************************************************************************)
(* dlock<T>: the unique_ptr base (ptr: whether it is non-null), the owner  *)
(* (TRUE: this dmut, FALSE: nullptr) and the lock type.                    *)
(***************************************************************************)
dlock(ptr, owner, type) == [ptr |-> ptr, owner |-> owner, type |-> type]

\* dlock<T>(): the guard of a failed try_ call, with no value and no owner.
dlock_empty == dlock(FALSE, FALSE, "NO_LOCK")

\* dlock(dlock&& other): the unique_ptr base is moved out of `other`; type
\* and owner are copied and `other` keeps its own.
dlock_move(other) ==
    [dst |-> dlock(other.ptr, other.owner, other.type),
     src |-> [other EXCEPT !.ptr = FALSE]]

\* dlock::operator=(dlock&& other): the unique_ptr base and the owner move
\* over and `other` is cleared; `this->type = type` assigns the left-hand
\* side's type to itself.
dlock_move_assign(this, other) ==
    [dst |-> dlock(other.ptr, other.owner, this.type),
     src |-> dlock(FALSE, FALSE, "NO_LOCK")]

\* std::make_pair(flag, dlock(...)): the temporary is moved into the pair
\* and lives on, moved-from, until the end of the return statement.
make_pair(flag, g) ==
    [first |-> flag, second |-> dlock_move(g).dst, temp |-> dlock_move(g).src]

\* The tail of dlock::unlock(): release(), owner = nullptr, type = NO_LOCK.
dlock_cleared == dlock(FALSE, FALSE, "NO_LOCK")

\* std::mutex: whether lock()/try_lock() can take the mutex now.
mutex_free(m) == m = NoThread

\* Mutant: every reader takes mut_w, not only the first.
is_first_reader_every(c) == c >= 1

\* peek()/try_peek(): `if (data->reader_count == 1)`.
is_first_reader(c) == c = 1

\* Mutant: mut_w is given back one reader too early, never by the last.
is_last_reader_off_by_one(c) == c = 1

\* on_release(): `if (data->reader_count == 0)`.
is_last_reader(c) == c = 0

\* try_lock(): the pair built when mut_w.try_lock() succeeded.
try_lock_ok == make_pair(TRUE, dlock(TRUE, TRUE, "WRITER_LOCK"))

\* Mutant: the failing return builds its guard like the successful one, with
\* a null value.
try_lock_fail_armed == make_pair(FALSE, dlock(FALSE, TRUE, "WRITER_LOCK"))

\* try_lock(): the pair built when mut_w.try_lock() failed.
try_lock_fail == make_pair(FALSE, dlock_empty)

\* try_peek(): the pair built on both successful returns.
try_peek_ok == make_pair(TRUE, dlock(TRUE, TRUE, "READER_LOCK"))

\* Mutant: the failing return reports success.
try_peek_fail_reports_true == make_pair(TRUE, dlock_empty)

\* try_peek(): the pair built when mut_w.try_lock() failed.
try_peek_fail == make_pair(FALSE, dlock_empty)

TypeOK ==
    /\ mut_w \in Threads \cup {NoThread, Main}
    /\ mut_r \in Threads \cup {NoThread}
    /\ reader_count \in -NThreads..(2 * NThreads)
    /\ value \in Values
    /\ pc \in [Threads -> {"idle", "scope", "l_lock",
                           "p_lock_r", "p_inc", "p_chk", "p_lock_w", "p_ret",
                           "tp_lock_r", "tp_inc", "tp_chk", "tp_try",
                           "tp_dec", "tp_ret",
                           "or_w_unlock", "or_lock_r", "or_dec", "or_chk",
                           "or_unlock_w", "or_unlock_r"}]
    /\ held \in [Threads -> [ptr : BOOLEAN, owner : BOOLEAN, type : LOCK_TYPE]]
    /\ tmp \in [Threads -> [ptr : BOOLEAN, owner : BOOLEAN, type : LOCK_TYPE]]
    /\ call \in [Threads -> {"none", "lock", "try_lock", "peek", "try_peek"}]
    /\ ret \in [Threads -> BOOLEAN]
    /\ rel \in [Threads -> {"none", "tmp", "unlock", "dtor", "dest"}]
    /\ notified \in [Threads -> 0..2]
    /\ committed \in Values
    /\ wrote \in [Threads -> BOOLEAN]
    /\ last_read \in [v : Values, want : Values]
    /\ dest \in [Threads -> [ptr : BOOLEAN, owner : BOOLEAN, type : LOCK_TYPE]]
    /\ dmut_data \in {"live", "null", "freed"}
    /\ life_pc \in {"own", "mv_lock_other", "mv_data", "mv_unlock_other",
                    "mv_unlock_this", "moved",
                    "dt_clean", "dt_unlock", "destroyed"}
    /\ this_mut_w \in {NoThread, Main}
    /\ this_data \in BOOLEAN
    /\ found \in [Threads -> SUBSET (0..(2 * NThreads))]

Init ==
    /\ mut_w = NoThread
    /\ mut_r = NoThread
    /\ reader_count = 0
    /\ value = InitVal
    /\ pc = [t \in Threads |-> "idle"]
    /\ held = [t \in Threads |-> dlock_cleared]
    /\ tmp = [t \in Threads |-> dlock_cleared]
    /\ call = [t \in Threads |-> "none"]
    /\ ret = [t \in Threads |-> FALSE]
    /\ rel = [t \in Threads |-> "none"]
    /\ notified = [t \in Threads |-> 0]
    /\ committed = InitVal
    /\ wrote = [t \in Threads |-> FALSE]
    /\ last_read = [v |-> InitVal, want |-> InitVal]
    /\ dest = [t \in Threads |-> dlock_cleared]
    /\ dmut_data = "live"
    /\ life_pc = "own"
    /\ this_mut_w = NoThread
    /\ this_data = FALSE
    /\ found = [t \in Threads |-> {}]

(***************************************************************************)
(* dlock::unlock() and dmut::on_release()                                  *)
(***************************************************************************)

\* Where a try_ function goes on once the temporary of its return statement
\* is destroyed: try_peek() still holds its lock_guard on mut_r, try_lock()
\* hands the pair to the caller.
after_temporary(f) == IF f = "try_peek" THEN "tp_ret" ELSE "scope"

\* Where thread t goes on when the dlock::unlock() it runs (r: the
\* temporary's, an explicit unlock(), or the caller's destructor) is over.
Finish(t, r) ==
    /\ rel' = [rel EXCEPT ![t] = "none"]
    /\ dest' = IF r = "dest" THEN [dest EXCEPT ![t] = dlock_cleared] ELSE dest
    /\ CASE r = "tmp" ->
              /\ pc' = [pc EXCEPT ![t] = after_temporary(call[t])]
              /\ tmp' = [tmp EXCEPT ![t] = dlock_cleared]
              /\ UNCHANGED <<held, call, ret, notified, wrote>>
         [] r = "unlock" ->
              \* the guard stays in scope, released
              /\ pc' = [pc EXCEPT ![t] = "scope"]
              /\ held' = [held EXCEPT ![t] = dlock_cleared]
              /\ call' = [call EXCEPT ![t] = IF held[t].type = "NO_LOCK" THEN @ ELSE "none"]
              /\ ret' = [ret EXCEPT ![t] = IF held[t].type = "NO_LOCK" THEN @ ELSE FALSE]
              /\ wrote' = [wrote EXCEPT ![t] = FALSE]
              /\ UNCHANGED <<tmp, notified>>
         [] r = "dest" ->
              \* the second variable stays in scope, released
              /\ pc' = [pc EXCEPT ![t] = "scope"]
              /\ UNCHANGED <<held, tmp, call, ret, notified, wrote>>
         [] OTHER ->
              \* the guard's scope ends
              /\ pc' = [pc EXCEPT ![t] = "idle"]
              /\ held' = [held EXCEPT ![t] = dlock_cleared]
              /\ call' = [call EXCEPT ![t] = "none"]
              /\ ret' = [ret EXCEPT ![t] = FALSE]
              /\ notified' = [notified EXCEPT ![t] = 0]
              /\ wrote' = [wrote EXCEPT ![t] = FALSE]
              /\ UNCHANGED tmp

\* Mutant: on_release() treats every kind that is not WRITER_LOCK as a
\* reader's (`else` in place of `if (type == READER_LOCK)`).
dlock_unlock_else_reader(t, g, r) ==
    /\ pc' = [pc EXCEPT ![t] =
                IF g.type = "WRITER_LOCK" THEN "or_w_unlock" ELSE "or_lock_r"]
    /\ rel' = [rel EXCEPT ![t] = r]
    /\ notified' = [notified EXCEPT ![t] = IF @ < 2 THEN @ + 1 ELSE @]
    /\ UNCHANGED <<held, tmp, call, ret, wrote, dest>>

\* dlock::unlock() on guard g up to the call owner->on_release(type):
\* on_release(NO_LOCK) does nothing, the other kinds start on a mutex.
dlock_unlock(t, g, r) ==
    IF g.type = "NO_LOCK"
    THEN Finish(t, r)
    ELSE /\ pc' = [pc EXCEPT ![t] =
                     IF g.type = "WRITER_LOCK" THEN "or_w_unlock" ELSE "or_lock_r"]
         /\ rel' = [rel EXCEPT ![t] = r]
         /\ notified' = [notified EXCEPT ![t] = @ + 1]
         /\ UNCHANGED <<held, tmp, call, ret, wrote, dest>>

\* on_release(WRITER_LOCK): this->mut_w.unlock().
or_w_unlock(t) ==
    /\ pc[t] = "or_w_unlock"
    /\ mut_w' = NoThread
    /\ committed' = IF rel[t] = "tmp" THEN committed ELSE value
    /\ Finish(t, rel[t])
    /\ UNCHANGED <<mut_r, reader_count, value, last_read>>
    /\ UNCHANGED <<found, life>>

\* on_release(READER_LOCK): std::lock_guard<std::mutex> guard(this->mut_r).
or_lock_r(t) ==
    /\ pc[t] = "or_lock_r"
    /\ mutex_free(mut_r)
    /\ mut_r' = t
    /\ pc' = [pc EXCEPT ![t] = "or_dec"]
    /\ UNCHANGED <<mut_w, reader_count, held, tmp, call, ret, rel, notified>>
    /\ UNCHANGED data
    /\ UNCHANGED <<dest, found, life>>

\* on_release(READER_LOCK): --data->reader_count.
or_dec(t) ==
    /\ pc[t] = "or_dec"
    /\ reader_count' = reader_count - 1
    /\ pc' = [pc EXCEPT ![t] = "or_chk"]
    /\ UNCHANGED <<mut_w, mut_r, held, tmp, call, ret, rel, notified>>
    /\ UNCHANGED data
    /\ UNCHANGED <<dest, found, life>>

\* Mutant: every released reader gives mut_w back, the last or not.
or_chk_always_unlocks(t) ==
    /\ pc[t] = "or_chk"
    /\ pc' = [pc EXCEPT ![t] = "or_unlock_w"]
    /\ UNCHANGED <<held, tmp, call, ret, rel, notified>>
    /\ UNCHANGED sync
    /\ UNCHANGED data
    /\ UNCHANGED <<dest, found, life>>

\* on_release(READER_LOCK): if (data->reader_count == 0).
or_chk(t) ==
    /\ pc[t] = "or_chk"
    /\ pc' = [pc EXCEPT ![t] =
                IF is_last_reader(reader_count) THEN "or_unlock_w" ELSE "or_unlock_r"]
    /\ UNCHANGED <<held, tmp, call, ret, rel, notified>>
    /\ UNCHANGED sync
    /\ UNCHANGED data
    /\ UNCHANGED <<dest, found, life>>

\* on_release(READER_LOCK): this->mut_w.unlock().
or_unlock_w(t) ==
    /\ pc[t] = "or_unlock_w"
    /\ mut_w' = NoThread
    /\ pc' = [pc EXCEPT ![t] = "or_unlock_r"]
    /\ UNCHANGED <<mut_r, reader_count, held, tmp, call, ret, rel, notified>>
    /\ UNCHANGED data
    /\ UNCHANGED <<dest, found, life>>

\* on_release(READER_LOCK): the lock_guard's destructor, then the rest of
\* dlock::unlock().
or_unlock_r(t) ==
    /\ pc[t] = "or_unlock_r"
    /\ mut_r' = NoThread
    /\ Finish(t, rel[t])
    /\ UNCHANGED <<mut_w, reader_count>>
    /\ UNCHANGED data
    /\ UNCHANGED <<found, life>>

\* `return std::make_pair(...)` in function f: the pair p is the result of
\* the call, and the temporary it was built from is destroyed at the end of
\* the statement: ~dlock() { unlock(); }.
return_pair(t, f, p) ==
    /\ held' = [held EXCEPT ![t] = p.second]
    /\ ret' = [ret EXCEPT ![t] = p.first]
    /\ IF p.temp.type = "NO_LOCK"
       THEN /\ pc' = [pc EXCEPT ![t] = after_temporary(f)]
            /\ UNCHANGED <<tmp, rel, notified>>
       ELSE /\ pc' = [pc EXCEPT ![t] =
                        IF p.temp.type = "WRITER_LOCK" THEN "or_w_unlock" ELSE "or_lock_r"]
            /\ tmp' = [tmp EXCEPT ![t] = p.temp]
            /\ rel' = [rel EXCEPT ![t] = "tmp"]
            /\ notified' = [notified EXCEPT ![t] = @ + 1]

(***************************************************************************)
(* dmut::lock()                                                            *)
(***************************************************************************)
lock_call(t) ==
    /\ pc[t] = "idle"
    /\ pc' = [pc EXCEPT ![t] = "l_lock"]
    /\ call' = [call EXCEPT ![t] = "lock"]
    /\ UNCHANGED <<held, tmp, ret, rel, notified>>
    /\ UNCHANGED sync
    /\ UNCHANGED data
    /\ UNCHANGED <<dest, found, life>>

\* this->mut_w.lock(); return dlock<T>(data->ptr_data, this, WRITER_LOCK).
lock_mut_w(t) ==
    /\ pc[t] = "l_lock"
    /\ mutex_free(mut_w)
    /\ mut_w' = t
    /\ held' = [held EXCEPT ![t] = dlock(TRUE, TRUE, "WRITER_LOCK")]
    /\ pc' = [pc EXCEPT ![t] = "scope"]
    /\ UNCHANGED <<mut_r, reader_count, tmp, call, ret, rel, notified>>
    /\ UNCHANGED data
    /\ UNCHANGED <<dest, found, life>>

(***************************************************************************)
(* dmut::peek()                                                            *)
(***************************************************************************)
peek_call(t) ==
    /\ pc[t] = "idle"
    /\ pc' = [pc EXCEPT ![t] = "p_lock_r"]
    /\ call' = [call EXCEPT ![t] = "peek"]
    /\ UNCHANGED <<held, tmp, ret, rel, notified>>
    /\ UNCHANGED sync
    /\ UNCHANGED data
    /\ UNCHANGED <<dest, found, life>>

\* std::lock_guard<std::mutex> guard(this->mut_r).
peek_lock_r(t) ==
    /\ pc[t] = "p_lock_r"
    /\ mutex_free(mut_r)
    /\ mut_r' = t
    /\ pc' = [pc EXCEPT ![t] = "p_inc"]
    /\ UNCHANGED <<mut_w, reader_count, held, tmp, call, ret, rel, notified>>
    /\ UNCHANGED data
    /\ UNCHANGED <<dest, found, life>>

\* ++data->reader_count.
peek_inc(t) ==
    /\ pc[t] = "p_inc"
    /\ reader_count' = reader_count + 1
    /\ pc' = [pc EXCEPT ![t] = "p_chk"]
    /\ UNCHANGED <<mut_w, mut_r, held, tmp, call, ret, rel, notified>>
    /\ UNCHANGED data
    /\ UNCHANGED <<dest, found, life>>

\* if (data->reader_count == 1).
peek_chk(t) ==
    /\ pc[t] = "p_chk"
    /\ pc' = [pc EXCEPT ![t] =
                IF is_first_reader(reader_count) THEN "p_lock_w" ELSE "p_ret"]
    /\ UNCHANGED <<held, tmp, call, ret, rel, notified>>
    /\ UNCHANGED sync
    /\ UNCHANGED data
    /\ UNCHANGED <<dest, found, life>>

\* this->mut_w.lock(), with mut_r held.
peek_lock_w(t) ==
    /\ pc[t] = "p_lock_w"
    /\ mutex_free(mut_w)
    /\ mut_w' = t
    /\ pc' = [pc EXCEPT ![t] = "p_ret"]
    /\ UNCHANGED <<mut_r, reader_count, held, tmp, call, ret, rel, notified>>
    /\ UNCHANGED data
    /\ UNCHANGED <<dest, found, life>>

\* return dlock<const T>(data->ptr_data, this, READER_LOCK); the lock_guard
\* on mut_r is destroyed.
peek_ret(t) ==
    /\ pc[t] = "p_ret"
    /\ held' = [held EXCEPT ![t] = dlock(TRUE, TRUE, "READER_LOCK")]
    /\ mut_r' = NoThread
    /\ pc' = [pc EXCEPT ![t] = "scope"]
    /\ UNCHANGED <<mut_w, reader_count, tmp, call, ret, rel, notified>>
    /\ UNCHANGED data
    /\ UNCHANGED <<dest, found, life>>

(***************************************************************************)
(* dmut::try_lock()                                                        *)
(***************************************************************************)
\* if (this->mut_w.try_lock()) return std::make_pair(true, dlock<T>(...));
\* return std::make_pair(false, dlock<T>());
try_lock_try(t) ==
    /\ pc[t] = "idle"
    /\ call' = [call EXCEPT ![t] = "try_lock"]
    /\ mut_w' = IF mutex_free(mut_w) THEN t ELSE mut_w
    /\ return_pair(t, "try_lock", IF mutex_free(mut_w) THEN try_lock_ok ELSE try_lock_fail)
    /\ UNCHANGED <<mut_r, reader_count>>
    /\ UNCHANGED data
    /\ UNCHANGED <<dest, found, life>>

(***************************************************************************)
(* dmut::try_peek()                                                        *)
(***************************************************************************)
try_peek_call(t) ==
    /\ pc[t] = "idle"
    /\ pc' = [pc EXCEPT ![t] = "tp_lock_r"]
    /\ call' = [call EXCEPT ![t] = "try_peek"]
    /\ UNCHANGED <<held, tmp, ret, rel, notified>>
    /\ UNCHANGED sync
    /\ UNCHANGED data
    /\ UNCHANGED <<dest, found, life>>

\* std::lock_guard<std::mutex> guard(this->mut_r).
try_peek_lock_r(t) ==
    /\ pc[t] = "tp_lock_r"
    /\ mutex_free(mut_r)
    /\ mut_r' = t
    /\ pc' = [pc EXCEPT ![t] = "tp_inc"]
    /\ UNCHANGED <<mut_w, reader_count, held, tmp, call, ret, rel, notified>>
    /\ UNCHANGED data
    /\ found' = [found EXCEPT ![t] = {reader_count}]
    /\ UNCHANGED <<dest, life>>

\* ++data->reader_count.
try_peek_inc(t) ==
    /\ pc[t] = "tp_inc"
    /\ reader_count' = reader_count + 1
    /\ pc' = [pc EXCEPT ![t] = "tp_chk"]
    /\ UNCHANGED <<mut_w, mut_r, held, tmp, call, ret, rel, notified>>
    /\ UNCHANGED data
    /\ UNCHANGED <<dest, found, life>>

\* if (data->reader_count == 1); otherwise the last return statement.
try_peek_chk(t) ==
    /\ pc[t] = "tp_chk"
    /\ IF is_first_reader(reader_count)
       THEN /\ pc' = [pc EXCEPT ![t] = "tp_try"]
            /\ UNCHANGED <<held, tmp, ret, rel, notified>>
       ELSE return_pair(t, "try_peek", try_peek_ok)
    /\ UNCHANGED call
    /\ UNCHANGED sync
    /\ UNCHANGED data
    /\ UNCHANGED <<dest, found, life>>

\* if (this->mut_w.try_lock()) return std::make_pair(true, ...).
try_peek_try(t) ==
    /\ pc[t] = "tp_try"
    /\ IF mutex_free(mut_w)
       THEN /\ mut_w' = t
            /\ return_pair(t, "try_peek", try_peek_ok)
       ELSE /\ pc' = [pc EXCEPT ![t] = "tp_dec"]
            /\ UNCHANGED <<mut_w, held, tmp, ret, rel, notified>>
    /\ UNCHANGED <<mut_r, reader_count, call>>
    /\ UNCHANGED data
    /\ UNCHANGED <<dest, found, life>>

\* Mutant: the failing return forgets to take its increment back.
try_peek_dec_keeps_count(t) ==
    /\ pc[t] = "tp_dec"
    /\ return_pair(t, "try_peek", try_peek_fail)
    /\ UNCHANGED <<mut_w, mut_r, reader_count, call>>
    /\ UNCHANGED data
    /\ UNCHANGED <<dest, found, life>>

\* --data->reader_count; return std::make_pair(false, dlock<const T>()).
try_peek_dec(t) ==
    /\ pc[t] = "tp_dec"
    /\ reader_count' = reader_count - 1
    /\ return_pair(t, "try_peek", try_peek_fail)
    /\ UNCHANGED <<mut_w, mut_r, call>>
    /\ UNCHANGED data
    /\ UNCHANGED <<dest, found, life>>

\* Mutant: mut_r is locked and unlocked by hand, and the failing return
\* leaves without unlocking it.
try_peek_ret_keeps_mut_r(t) ==
    /\ pc[t] = "tp_ret"
    /\ mut_r' = IF ret[t] THEN NoThread ELSE mut_r
    /\ pc' = [pc EXCEPT ![t] = "scope"]
    /\ UNCHANGED <<mut_w, reader_count, held, tmp, call, ret, rel, notified>>
    /\ UNCHANGED data
    /\ found' = [found EXCEPT ![t] = {}]
    /\ UNCHANGED <<dest, life>>

\* The lock_guard on mut_r is destroyed and the pair is returned.
try_peek_ret(t) ==
    /\ pc[t] = "tp_ret"
    /\ mut_r' = NoThread
    /\ pc' = [pc EXCEPT ![t] = "scope"]
    /\ UNCHANGED <<mut_w, reader_count, held, tmp, call, ret, rel, notified>>
    /\ UNCHANGED data
    /\ found' = [found EXCEPT ![t] = {}]
    /\ UNCHANGED <<dest, life>>

(***************************************************************************)
(* The caller: a guard in scope is released by unlock() or by ~dlock().    *)
(***************************************************************************)

\* lock.unlock(), on a guard that is in scope.
Unlock(t) ==
    /\ pc[t] = "scope"
    /\ dlock_unlock(t, held[t], "unlock")
    /\ UNCHANGED sync
    /\ UNCHANGED data
    /\ UNCHANGED <<found, life>>

\* The guard leaves its scope: ~dlock() { unlock(); }.
ScopeExit(t) ==
    /\ pc[t] = "scope"
    /\ dlock_unlock(t, held[t], "dtor")
    /\ UNCHANGED sync
    /\ UNCHANGED <<value, committed, last_read>>
    /\ UNCHANGED <<found, life>>

\* dest = std::move(lock): the live guard is move-assigned to the thread's
\* second variable.  (The guard on reader_count keeps the model finite: a
\* registration that is never released stays in the counter.)
MoveAssign(t) ==
    /\ pc[t] = "scope"
    /\ held[t].type # "NO_LOCK"
    /\ reader_count < NThreads
    /\ dest' = [dest EXCEPT ![t] = dlock_move_assign(dest[t], held[t]).dst]
    /\ held' = [held EXCEPT ![t] = dlock_move_assign(dest[t], held[t]).src]
    /\ UNCHANGED <<pc, tmp, call, ret, rel, notified>>
    /\ UNCHANGED sync
    /\ UNCHANGED data
    /\ UNCHANGED <<found, life>>

\* dest.unlock(), on the second variable.
UnlockDest(t) ==
    /\ pc[t] = "scope"
    /\ dlock_unlock(t, dest[t], "dest")
    /\ UNCHANGED sync
    /\ UNCHANGED data
    /\ UNCHANGED <<found, life>>

(***************************************************************************)
(* dmut(dmut&& other) and operator=(dmut&& other), run by the owning       *)
(* thread: `other` is the dmut the client threads share, `this` the dmut   *)
(* that receives its data.  Both functions have the same body.             *)
(***************************************************************************)

\* std::lock_guard<std::mutex> this_guard(this->mut_w).
move_lock_this ==
    /\ life_pc = "own"
    /\ mutex_free(this_mut_w)
    /\ this_mut_w' = Main
    /\ life_pc' = "mv_lock_other"
    /\ UNCHANGED <<dmut_data, this_data, dest, found>>
    /\ UNCHANGED <<pc, held, tmp, call, ret, rel, notified>>
    /\ UNCHANGED sync
    /\ UNCHANGED data

\* std::lock_guard<std::mutex> other_guard(other.mut_w).
move_lock_other ==
    /\ life_pc = "mv_lock_other"
    /\ mutex_free(mut_w)
    /\ mut_w' = Main
    /\ life_pc' = "mv_data"
    /\ UNCHANGED <<dmut_data, this_mut_w, this_data, dest, found>>
    /\ UNCHANGED <<pc, held, tmp, call, ret, rel, notified>>
    /\ UNCHANGED <<mut_r, reader_count>>
    /\ UNCHANGED data

\* this->data = other.data; other.data = nullptr.  The data block, with the
\* value pointer and reader_count in it, is now the destination's.
move_data ==
    /\ life_pc = "mv_data"
    /\ this_data' = TRUE
    /\ dmut_data' = "null"
    /\ life_pc' = "mv_unlock_other"
    /\ UNCHANGED <<this_mut_w, dest, found>>
    /\ UNCHANGED <<pc, held, tmp, call, ret, rel, notified>>
    /\ UNCHANGED sync
    /\ UNCHANGED data

\* ~lock_guard of other_guard.
move_unlock_other ==
    /\ life_pc = "mv_unlock_other"
    /\ mut_w' = NoThread
    /\ life_pc' = "mv_unlock_this"
    /\ UNCHANGED <<dmut_data, this_mut_w, this_data, dest, found>>
    /\ UNCHANGED <<pc, held, tmp, call, ret, rel, notified>>
    /\ UNCHANGED <<mut_r, reader_count>>
    /\ UNCHANGED data

\* ~lock_guard of this_guard; the move returns.
move_unlock_this ==
    /\ life_pc = "mv_unlock_this"
    /\ this_mut_w' = NoThread
    /\ life_pc' = "moved"
    /\ UNCHANGED <<dmut_data, this_data, dest, found>>
    /\ UNCHANGED <<pc, held, tmp, call, ret, rel, notified>>
    /\ UNCHANGED sync
    /\ UNCHANGED data

(***************************************************************************)
(* ~dmut(), run by the owning thread.                                      *)
(***************************************************************************)

\* std::lock_guard<std::mutex> guard(this->mut_w).
dtor_lock ==
    /\ life_pc = "own"
    /\ mutex_free(mut_w)
    /\ mut_w' = Main
    /\ life_pc' = "dt_clean"
    /\ UNCHANGED <<dmut_data, this_mut_w, this_data, dest, found>>
    /\ UNCHANGED <<pc, held, tmp, call, ret, rel, notified>>
    /\ UNCHANGED <<mut_r, reader_count>>
    /\ UNCHANGED data

\* data->clean(); delete data: the protected value is reclaimed.
dtor_clean ==
    /\ life_pc = "dt_clean"
    /\ dmut_data' = "freed"
    /\ life_pc' = "dt_unlock"
    /\ UNCHANGED <<this_mut_w, this_data, dest, found>>
    /\ UNCHANGED <<pc, held, tmp, call, ret, rel, notified>>
    /\ UNCHANGED sync
    /\ UNCHANGED data

\* ~lock_guard; the members are destroyed.
dtor_unlock ==
    /\ life_pc = "dt_unlock"
    /\ mut_w' = NoThread
    /\ life_pc' = "destroyed"
    /\ UNCHANGED <<dmut_data, this_mut_w, this_data, dest, found>>
    /\ UNCHANGED <<pc, held, tmp, call, ret, rel, notified>>
    /\ UNCHANGED <<mut_r, reader_count>>
    /\ UNCHANGED data

\* The reader count a dmut has: the one in the data block its data points
\* to, none when data is null.
other_reader_count == IF dmut_data = "live" THEN {reader_count} ELSE {}
this_reader_count == IF this_data THEN {reader_count} ELSE {}

(***************************************************************************)
(* Access to the protected object through a guard (operator-> on a dlock). *)
(***************************************************************************)

\* A guard of the given kind is in the caller's hands and not yet released.
WriterGuard(t) == pc[t] = "scope" /\ held[t].type = "WRITER_LOCK"
ReaderGuard(t) == pc[t] = "scope" /\ held[t].type = "READER_LOCK"

\* lock->val read through a live guard, before the thread's own writes.
\* The object is a plain int: a read that is not ordered with a write
\* another thread has made through a guard it still holds is a data race
\* and may return any value.
Read(t) ==
    /\ pc[t] = "scope"
    /\ held[t].type # "NO_LOCK"
    /\ ~wrote[t]
    /\ LET race == \E u \in Threads \ {t} : WriterGuard(u) /\ wrote[u]
       IN  \E x \in (IF race THEN Values ELSE {value}) :
               last_read' = [v |-> x, want |-> committed]
    /\ UNCHANGED <<value, committed, wrote>>
    /\ UNCHANGED <<pc, held, tmp, call, ret, rel, notified>>
    /\ UNCHANGED sync
    /\ UNCHANGED <<dest, found, life>>

\* lock->val = v through a live writer guard, v a new value.
Write(t, v) ==
    /\ WriterGuard(t)
    /\ v # value
    /\ value' = v
    /\ wrote' = [wrote EXCEPT ![t] = TRUE]
    /\ UNCHANGED <<committed, last_read>>
    /\ UNCHANGED <<pc, held, tmp, call, ret, rel, notified>>
    /\ UNCHANGED sync
    /\ UNCHANGED <<dest, found, life>>

(***************************************************************************)
(* Specifications                                                          *)
(***************************************************************************)
Acquire(t) ==
    \/ lock_call(t) \/ lock_mut_w(t)
    \/ peek_call(t) \/ peek_lock_r(t) \/ peek_inc(t) \/ peek_chk(t)
    \/ peek_lock_w(t) \/ peek_ret(t)

TryAcquire(t) ==
    \/ try_lock_try(t)
    \/ try_peek_call(t) \/ try_peek_lock_r(t) \/ try_peek_inc(t)
    \/ try_peek_chk(t) \/ try_peek_try(t) \/ try_peek_dec(t)
    \/ try_peek_ret(t)

ReleaseReader(t) ==
    \/ or_lock_r(t) \/ or_dec(t) \/ or_chk(t) \/ or_unlock_w(t) \/ or_unlock_r(t)

Release(t) == or_w_unlock(t) \/ ReleaseReader(t)

\* The steps of thread t inside a dmut or dlock member function.
ThreadStep(t) == Acquire(t) \/ TryAcquire(t) \/ Release(t)

\* Any interleaving of the four acquisition functions and of releases.
Next ==
    \E t \in Threads : ThreadStep(t) \/ Unlock(t) \/ ScopeExit(t)

Spec == Init /\ [][Next]_vars

\* Callers that read and write through their guards and release them at
\* scope exit.
NextData ==
    \/ \E t \in Threads : ThreadStep(t) \/ ScopeExit(t)
    \/ \E t \in Threads : Read(t)
    \/ \E t \in Threads : \E v \in Values : Write(t, v)

SpecData == Init /\ [][NextData]_vars

\* Readers only: every thread calls peek() once and keeps its guard until it
\* calls unlock(), if it ever does.  The scheduler runs every thread that is
\* inside a member function; nothing obliges a caller to release.
PeekStep(t) ==
    \/ peek_call(t) \/ peek_lock_r(t) \/ peek_inc(t) \/ peek_chk(t)
    \/ peek_lock_w(t) \/ peek_ret(t)

NextPeek ==
    \E t \in Threads : PeekStep(t) \/ ReleaseReader(t) \/ Unlock(t)

SpecPeek ==
    /\ Init
    /\ [][NextPeek]_vars
    /\ \A t \in Threads : WF_vars(PeekStep(t) \/ ReleaseReader(t))

\* lock() and peek() callers that release at scope exit and call again.  The
\* scheduler runs every thread that is inside a member function; nothing
\* obliges a caller to call or to release.
InCall(t) ==
    \/ lock_mut_w(t)
    \/ peek_lock_r(t) \/ peek_inc(t) \/ peek_chk(t) \/ peek_lock_w(t) \/ peek_ret(t)
    \/ Release(t)

NextLockPeek ==
    \E t \in Threads : Acquire(t) \/ Release(t) \/ ScopeExit(t)

SpecLockPeek ==
    /\ Init
    /\ [][NextLockPeek]_vars
    /\ \A t \in Threads : WF_vars(InCall(t))

\* lock() and peek() callers that may move-assign the guard they hold to a
\* second variable and release through that one.
NextAssign ==
    \E t \in Threads :
        \/ Acquire(t) \/ Release(t) \/ ScopeExit(t)
        \/ MoveAssign(t) \/ UnlockDest(t)

SpecAssign == Init /\ [][NextAssign]_vars

\* The client threads together with the owning thread, which moves the dmut
\* away or destroys it once.  The clients are followed for as long as the
\* dmut has its data: what they do on a dmut whose data is null or freed is
\* undefined.
Move ==
    \/ move_lock_this \/ move_lock_other \/ move_data
    \/ move_unlock_other \/ move_unlock_this

Destroy == dtor_lock \/ dtor_clean \/ dtor_unlock

NextLife ==
    \/ dmut_data = "live" /\ Next
    \/ Move
    \/ Destroy

SpecLife == Init /\ [][NextLife]_vars

\* Sustained reader pressure: the threads of Readers call peek() again and
\* again and, while a lock() is waiting, leave the scope of a guard only if
\* another reader guard is outstanding, so that their guards overlap; the
\* other threads call lock().  The scheduler is fair to every thread,
\* strongly so to a waiting lock().
Readers == 2..NThreads
Writers == Threads \ Readers

OverlapExit(t) ==
    /\ (\E w \in Writers : pc[w] = "l_lock") =>
           \E u \in Threads \ {t} : ReaderGuard(u)
    /\ ScopeExit(t)

ReaderStep(t) == PeekStep(t) \/ ReleaseReader(t) \/ OverlapExit(t)

WriterStep(t) == lock_call(t) \/ lock_mut_w(t) \/ or_w_unlock(t) \/ ScopeExit(t)

NextStarve ==
    \/ \E t \in Readers : ReaderStep(t)
    \/ \E t \in Writers : WriterStep(t)

SpecStarve ==
    /\ Init
    /\ [][NextStarve]_vars
    /\ \A t \in Readers : WF_vars(ReaderStep(t))
    /\ \A t \in Writers : SF_vars(lock_mut_w(t)) /\ WF_vars(or_w_unlock(t))

(***************************************************************************)
(* Properties                                                              *)
(***************************************************************************)

\* C1: a live writer guard and a live reader guard are never outstanding at
\* the same time.
C1_NoWriterWithReader ==
    ~(\E w \in Threads : \E r \in Threads : WriterGuard(w) /\ ReaderGuard(r))

\* C2: at most one writer guard is live at any instant, whether lock() or a
\* successful try_lock() issued it.
C2_AtMostOneWriter ==
    Cardinality({t \in Threads : WriterGuard(t)}) <= 1

\* C3: on_release is invoked with a guard's kind exactly once over the
\* guard's life: not while the caller still holds the guard live, and once
\* by the time the caller's unlock() has returned.
C3_NotifiedExactlyOnce ==
    \A t \in Threads :
        /\ (pc[t] = "scope" /\ held[t].type # "NO_LOCK") => notified[t] = 0
        /\ (pc[t] = "scope" /\ call[t] = "none") => notified[t] = 1

\* The step in which mut_w.try_lock() inside try_lock() returns true.
TryLockSucceeds(t) == pc[t] = "idle" /\ call'[t] = "try_lock" /\ ret'[t]

\* C4: while any reader guard is outstanding try_lock() fails; it succeeds
\* only by taking a free mut_w.
C4_TryLockFailsUnderReaders ==
    [][\A t \in Threads :
          TryLockSucceeds(t) =>
              /\ ~(\E r \in Threads : ReaderGuard(r))
              /\ mutex_free(mut_w) /\ mut_w' = t]_vars

\* The step in which try_peek() returns to its caller.
TryPeekReturns(t) == pc[t] = "tp_ret" /\ pc'[t] = "scope"

\* C5: while a writer guard is outstanding, every try_peek() that returns
\* returns (false, empty guard).
C5_TryPeekFailsUnderWriter ==
    [][\A t \in Threads :
          (TryPeekReturns(t) /\ \E w \in Threads : WriterGuard(w)) =>
              ~ret'[t] /\ held'[t] = dlock_empty]_vars

\* C5, its case: a writer guard is outstanding and a try_peek() is about to
\* return false to its caller.
C5_Witness ==
    \E t \in Threads : \E w \in Threads :
        /\ WriterGuard(w)
        /\ call[t] = "try_peek" /\ pc[t] = "tp_ret" /\ ~ret[t]
        /\ held[t] = dlock_empty

\* C6: with no writer, try_peek() returns (true, reader guard): a call that
\* has built the successful pair can take its remaining steps.
C6_TryPeekSucceedsWithoutWriter ==
    \A t \in Threads :
        (call[t] = "try_peek" /\ ret[t] /\ pc[t] # "scope") => ENABLED ThreadStep(t)

\* A thread inside a member function that cannot take a step now.
Blocked(t) == pc[t] \notin {"idle", "scope"} /\ ~ENABLED ThreadStep(t)

\* C7: try_lock() and try_peek() never suspend the caller: a thread inside
\* one of them waits at most for a thread that is itself able to run.
C7_TryNeverSuspends ==
    \A t \in Threads :
        (call[t] \in {"try_lock", "try_peek"} /\ Blocked(t)) =>
            /\ mut_r \in Threads \ {t}
            /\ ~Blocked(mut_r)

AllReadersOutstanding == \A t \in Threads : ReaderGuard(t)

\* C8: with no writer, N threads calling peek() all obtain a reader guard
\* without waiting for a release: every call returns, and unless a guard is
\* released first all N guards are outstanding at once.
C8_ReadersDoNotBlockReaders ==
    /\ \A t \in Threads : <>(pc[t] = "scope")
    /\ <>(AllReadersOutstanding \/ \E t \in Threads : rel[t] # "none")

\* C8, its case: all N reader guards outstanding at once.
C8_Witness == AllReadersOutstanding /\ reader_count = NThreads

\* No reader guard is outstanding, being acquired or being released.
Drained == \A r \in Threads : call[r] # "peek"

\* No other thread holds, acquires or releases a writer guard.
OnlyWriter(t) == \A u \in Threads \ {t} : call[u] # "lock"

\* C9: a lock() that waits behind reader guards returns once they are all
\* released, unless a new reader (or another writer) arrives first.
C9_WriterProceedsWhenDrained ==
    \A t \in Threads :
        (pc[t] = "l_lock" /\ Drained /\ OnlyWriter(t))
            ~> (WriterGuard(t) \/ ~Drained \/ ~OnlyWriter(t))

\* C9, its case: a lock() waiting while reader guards keep mut_w locked.
C9_Witness ==
    \E t \in Threads : \E r \in Threads :
        /\ pc[t] = "l_lock" /\ ReaderGuard(r)
        /\ ~mutex_free(mut_w) /\ reader_count >= 1

\* C10: a value read through a guard is the value the dmut was constructed
\* with or the one last written through a writer guard released since.
C10_ReadsSeeLastReleasedWrite == last_read.v = last_read.want

\* C11: a further unlock() of a guard that was already released, the
\* destructor's after an explicit unlock() included, starts no release on
\* the dmut (on_release sees NO_LOCK) and leaves mut_w, mut_r and
\* reader_count as they are.
C11_ReleaseIsIdempotent ==
    [][\A t \in Threads :
          ((Unlock(t) \/ ScopeExit(t)) /\ held[t].type = "NO_LOCK" /\ call[t] = "none")
              => /\ sync' = sync
                 /\ pc'[t] \in {"scope", "idle"}
                 /\ notified'[t] <= notified[t]]_vars

\* C11, its case: a guard obtained from lock() or peek() was released by
\* unlock() and is still in scope, its destructor yet to run.
C11_Witness ==
    \E t \in Threads :
        /\ pc[t] = "scope" /\ held[t] = dlock_cleared
        /\ call[t] = "none" /\ notified[t] = 1

\* C12: the source of a guard's move construction is disarmed: it has kind
\* NO_LOCK and no owner, so that the two destructors notify the dmut once.
C12_MoveDisarmsSource ==
    \A t \in Threads :
        /\ tmp[t].type = "NO_LOCK" /\ ~tmp[t].owner
        /\ notified[t] <= 1

\* The step in which thread t releases, by unlock() or at scope exit, the
\* empty guard a failed try_lock() or try_peek() gave it.
ReleasesEmptyGuard(t) ==
    /\ Unlock(t) \/ ScopeExit(t)
    /\ call[t] \in {"try_lock", "try_peek"} /\ ~ret[t]

\* C14: the guard of a failed try_lock() or try_peek() has no value and no
\* owner, and releasing it starts nothing on the dmut.
C14_EmptyGuardReleaseIsNoOp ==
    [][\A t \in Threads :
          ReleasesEmptyGuard(t)
              => /\ ~held[t].ptr /\ ~held[t].owner
                 /\ sync' = sync
                 /\ pc'[t] \in {"scope", "idle"}
                 /\ notified'[t] <= notified[t]]_vars

\* C14, its case: both try_lock() and try_peek() have failed and their
\* callers hold the empty guards.
C14_Witness ==
    \E t \in Threads : \E u \in Threads :
        /\ pc[t] = "scope" /\ call[t] = "try_lock" /\ ~ret[t]
        /\ pc[u] = "scope" /\ call[u] = "try_peek" /\ ~ret[u]
        /\ held[t] = dlock_empty /\ held[u] = dlock_empty

\* C19: reader_count is never negative and equals the number of reader
\* guards outstanding.
C19_ReaderCountIsReaderGuards ==
    /\ reader_count >= 0
    /\ reader_count = Cardinality({t \in Threads : ReaderGuard(t)})

\* Thread t has raised reader_count, in peek() or try_peek(), and neither
\* try_peek() nor on_release() has lowered it again for t.
Registered(t) ==
    \/ pc[t] \in {"p_chk", "p_lock_w", "p_ret", "tp_chk", "tp_try", "tp_dec"}
    \/ held[t].type = "READER_LOCK" /\ pc[t] \in {"scope", "tp_ret", "or_lock_r", "or_dec"}

\* C19 as amended: reader_count is never negative and equals the number of
\* threads between the increment of an acquisition and the decrement of
\* its release; with no thread inside peek(), try_peek() or on_release(),
\* that is the number of reader guards outstanding.
C19_ReaderCountIsRegistrations ==
    /\ reader_count >= 0
    /\ reader_count = Cardinality({t \in Threads : Registered(t)})
    /\ (\A t \in Threads : pc[t] \in {"idle", "scope"}) =>
           reader_count = Cardinality({t \in Threads : ReaderGuard(t)})

\* C19, its case: reader guards outstanding beside a reader that has raised
\* the count and not returned, and beside one that is being released.
C19_Witness ==
    \E t \in Threads : \E u \in Threads : \E v \in Threads :
        /\ ReaderGuard(t) /\ pc[u] = "p_ret" /\ pc[v] = "or_lock_r"
        /\ reader_count = 3

\* No thread is inside a member function of the dmut or of a guard.
Quiescent == \A t \in Threads : pc[t] \in {"idle", "scope"}

\* C20: mut_w is locked exactly when a writer guard or at least one reader
\* guard is outstanding, at the least whenever no call is in progress.
C20_MutWLockedIffGuards ==
    Quiescent =>
        (~mutex_free(mut_w) <=> \E t \in Threads : WriterGuard(t) \/ ReaderGuard(t))

\* C13: a move assignment hands the release obligation over: the left-hand
\* side then carries the kind and the owner of the guard assigned to it, and
\* its unlock() releases that guard's lock.
C13_MoveAssignTransfersRelease ==
    [][\A t \in Threads :
          /\ MoveAssign(t) =>
                 /\ dest'[t].type = held[t].type
                 /\ dest'[t].owner = held[t].owner
          /\ (UnlockDest(t) /\ dest[t].owner) => rel'[t] = "dest"]_vars

\* C15: ~dmut() reclaims the protected value only when no writer guard and
\* no reader guard of the dmut is live.
C15_NoDestroyUnderGuards ==
    dmut_data = "freed" =>
        ~(\E t \in Threads : WriterGuard(t) \/ ReaderGuard(t))

\* C16: when the move of a dmut that no thread uses returns, the destination
\* has the value and a reader count of zero, the source has a reader count
\* of zero, and mut_w of both is free.
C16_MoveTransfersAndResets ==
    (life_pc = "moved" /\ \A t \in Threads : pc[t] = "idle") =>
        /\ this_data
        /\ this_reader_count = {0}
        /\ other_reader_count = {0}
        /\ mutex_free(mut_w) /\ mutex_free(this_mut_w)

\* C17: the data of a dmut is moved away only when no guard is outstanding
\* on it and no acquisition is in progress: no thread is left with a guard
\* or inside a call on a dmut whose data is null.
C17_NoMoveUnderGuards ==
    dmut_data = "null" => \A t \in Threads : pc[t] = "idle"

\* Thread t waits in lock() while a reader guard is outstanding.
Starved(t) == pc[t] = "l_lock" /\ \E r \in Threads : ReaderGuard(r)

\* C18: writers have no priority.  Under fair scheduling and overlapping
\* readers, a lock() that waits behind a reader guard waits at every later
\* step, while new readers keep arriving: it never returns.
C18_WriterCanStarve ==
    /\ [][\A t \in Writers : Starved(t) => Starved(t)']_vars
    /\ \A t \in Writers : Starved(t) ~> (\E r \in Readers : pc[r] = "p_lock_r")

\* C18, its case: a lock() waits while a reader guard is outstanding and
\* another reader, arriving, joins without waiting for mut_w.
C18_Witness ==
    \E t \in Writers : \E r \in Readers :
        /\ Starved(t) /\ pc[r] = "p_ret"
        /\ reader_count >= 2 /\ mut_w \in Readers \ {r}

\* C21: a try_peek() that fails leaves the dmut as it found it: on return
\* reader_count has the value it had when the call took mut_r, mut_w is not
\* locked by the caller, and mut_r is free.
C21_FailedTryPeekLeavesNoTrace ==
    [][\A t \in Threads :
          (TryPeekReturns(t) /\ ~ret[t]) =>
              /\ found[t] = {reader_count'}
              /\ mut_w' = mut_w /\ mut_w' # t
              /\ mutex_free(mut_r')]_vars

\* C21, its case: a try_peek() that met a locked mut_w has taken its
\* increment back and is about to return false.
C21_Witness ==
    \E t \in Threads :
        /\ pc[t] = "tp_ret" /\ call[t] = "try_peek" /\ ~ret[t]
        /\ found[t] = {0} /\ reader_count = 0
        /\ mut_w \in Threads \ {t} /\ mut_r = t

\* C22: no interleaving of acquisitions and releases reaches a state in
\* which some thread is inside a call and every thread that is inside a
\* call is blocked, with no guard outstanding whose release could free it.
C22_NoDeadlock ==
    ~ /\ \E t \in Threads : Blocked(t)
      /\ \A t \in Threads : Blocked(t) \/ pc[t] = "idle"

\* The step in which thread t executes mut_w.unlock() in on_release().
UnlocksMutW(t) == or_w_unlock(t) \/ or_unlock_w(t)

\* C23: mut_w is unlocked by the thread whose call locked it.
C23_MutWUnlockedByLocker ==
    [][\A t \in Threads : UnlocksMutW(t) => mut_w = t]_vars

====
